---- MODULE Spec2Model ----
(***************************************************************************)
(* Content-extraction retry engine of the news summarizer                  *)
(* (app/services/extract_repo.py over the articles table of                *)
(* app/db/models.py).  Timestamps are minutes since the pool was ingested. *)
(***************************************************************************)
EXTENDS Integers, FiniteSets, Sequences, TLC

\* ------------------------------------------------------------------ bounds
NumArticles == 2
MaxClock == 40
\* passes a process starts in the step-by-step specification
MaxPasses == 2

Articles == 1..NumArticles

\* ------------------------------------------------------- program constants
MAX_EXTRACTION_ATTEMPTS == 3
BackoffBaseMinutes == 5
BackoffMultiplier == 6
MinLength == 100
DefaultBatchSize == 30
MinutesPerHour == 60

SKIP_DOMAINS ==
    {"wol.fm", "twitter.com", "x.com", "youtube.com", "reddit.com",
     "retool.com", "bostondynamics.com", "donotnotify.com", "minha.sh",
     "ronjeffries.com", "www.thebignewsletter.com"}

\* SQL NULL / Python None of the nullable columns
NullStatus == "null"
NullTime == -1
NullText == -1

\* ------------------------------------------------------------------ inputs
Hosts == {"x.com", "techcrunch.com"}
Hours == {0, 1}
BatchSizes == {1, DefaultBatchSize}
TickSteps == {5, 30}
\* a step of the clock that outlasts either cooldown
CooldownStep == 30
\* what the fetch and the parser produced for one url: -1 is a fetch or
\* parse failure (no text), otherwise the length of the stripped text
RawOutcomes == {-1, 99, 100}

VARIABLES articles, clock, last, failures, node, sess, sel

vars == <<articles, clock, last, failures, node, sess, sel>>

\* ------------------------------------------------- SQL three-valued logic
Or3(a, b) ==
    IF a = "T" \/ b = "T" THEN "T"
    ELSE IF a = "F" /\ b = "F" THEN "F"
    ELSE "U"

And3(a, b) ==
    IF a = "F" \/ b = "F" THEN "F"
    ELSE IF a = "T" /\ b = "T" THEN "T"
    ELSE "U"

Bool3(b) == IF b THEN "T" ELSE "F"

\* column IS NULL: never unknown
StatusIsNull(s) == Bool3(s = NullStatus)

\* column == 'literal': unknown on NULL
StatusEq(s, lit) == IF s = NullStatus THEN "U" ELSE Bool3(s = lit)

\* column != 'literal': unknown on NULL
StatusNe(s, lit) == IF s = NullStatus THEN "U" ELSE Bool3(s # lit)

\* next_extract_at <= now: unknown on NULL
TimeLe(t, now) == IF t = NullTime THEN "U" ELSE Bool3(t <= now)

\* ------------------------------------------ the clauses of the candidate query
\* .where(Article.scraped_at >= cutoff)
InWindow(a, cutoff) == Bool3(a.scraped_at >= cutoff)

\* .where(Article.content_text.is_(None))
NoText(a) == Bool3(a.content_text = NullText)

\* the attempts bound off by one
Retryable_OffByOne(a) ==
    Or3(StatusIsNull(a.extraction_status),
        Or3(StatusEq(a.extraction_status, "ok"),
            Bool3(a.extraction_attempts <= MAX_EXTRACTION_ATTEMPTS)))

\* .where(or_(status IS NULL, status == 'ok', attempts < MAX))
Retryable(a) ==
    Or3(StatusIsNull(a.extraction_status),
        Or3(StatusEq(a.extraction_status, "ok"),
            Bool3(a.extraction_attempts < MAX_EXTRACTION_ATTEMPTS)))

\* the cooldown clause left out of the query
NoCooldown_Ignored(a, now) == "T"

\* .where(or_(next_extract_at IS NULL, next_extract_at <= now))
NoCooldown(a, now) ==
    Or3(Bool3(a.next_extract_at = NullTime), TimeLe(a.next_extract_at, now))

\* the skipped clause left out of the query
NotSkipped_Dropped(a) == "T"

\* .where(Article.extraction_status != 'skipped')
NotSkipped(a) == StatusNe(a.extraction_status, "skipped")

\* A row is returned only when the conjunction of the five .where() calls
\* evaluates to true.
Where(a, cutoff, now) ==
    And3(InWindow(a, cutoff),
         And3(NoText(a),
              And3(Retryable(a),
                   And3(NoCooldown(a, now), NotSkipped(a))))) = "T"

\* ------------------------------------------------------------ the Extractor
\* the length gate left out: any non-empty text is returned
extract_article_text_NoMinimum(raw) == IF raw > 0 THEN raw ELSE NullText

\* extract_article_text: text only when the stripped text has min_length
\* characters, None otherwise.  Text is modelled by its length.
extract_article_text(raw) == IF raw >= MinLength THEN raw ELSE NullText

RECURSIVE Pow(_, _)
Pow(b, e) == IF e = 0 THEN 1 ELSE b * Pow(b, e - 1)

\* the exponent taken as the attempt number itself
BackoffMinutes_ExponentOff(attempts) ==
    BackoffBaseMinutes * Pow(BackoffMultiplier, attempts)

\* backoff_minutes = 5 * (6 ** (article.extraction_attempts - 1))
BackoffMinutes(attempts) ==
    BackoffBaseMinutes * Pow(BackoffMultiplier, attempts - 1)

\* urlparse(article.url).netloc; the model stores a url by its host
netloc(url) == url

\* --------------------------------------------- one iteration of the for loop
\* the skip counted as an attempt
OnSkip_CountsAttempt(a) ==
    [a EXCEPT !.extraction_status = "skipped", !.extraction_attempts = @ + 1]

\* domain on the skiplist: status only
OnSkip(a) == [a EXCEPT !.extraction_status = "skipped"]

\* article.extraction_attempts += 1, before the result is looked at
Attempted(a) == [a EXCEPT !.extraction_attempts = @ + 1]

\* the text stored without the status
OnSuccess_NoStatus(a, text) ==
    [a EXCEPT !.content_text = text, !.next_extract_at = NullTime]

\* the text stored without clearing the cooldown
OnSuccess_KeepsCooldown(a, text) ==
    [a EXCEPT !.content_text = text, !.extraction_status = "ok"]

\* the Extractor returned text
OnSuccess(a, text) ==
    [a EXCEPT !.content_text = text,
              !.extraction_status = "ok",
              !.next_extract_at = NullTime]

\* no text and attempts left: cooldown, status untouched
OnRetry(a, now) ==
    [a EXCEPT !.next_extract_at = now + BackoffMinutes(a.extraction_attempts)]

\* the cooldown left in place when the attempts are used up
OnExhausted_KeepsCooldown(a) == [a EXCEPT !.extraction_status = "failed"]

\* no text and no attempts left
OnExhausted(a) ==
    [a EXCEPT !.extraction_status = "failed",
              !.next_extract_at = NullTime]

\* giving up one attempt early
ProcessArticle_GivesUpEarly(a, now, raw) ==
    IF netloc(a.url) \in SKIP_DOMAINS
    THEN OnSkip(a)
    ELSE LET text == extract_article_text(raw)
             b == Attempted(a)
         IN IF text # NullText
            THEN OnSuccess(b, text)
            ELSE IF b.extraction_attempts < MAX_EXTRACTION_ATTEMPTS - 1
                 THEN OnRetry(b, now)
                 ELSE OnExhausted(b)

ProcessArticle(a, now, raw) ==
    IF netloc(a.url) \in SKIP_DOMAINS
    THEN OnSkip(a)
    ELSE LET text == extract_article_text(raw)
             b == Attempted(a)
         IN IF text # NullText
            THEN OnSuccess(b, text)
            ELSE IF b.extraction_attempts < MAX_EXTRACTION_ATTEMPTS
                 THEN OnRetry(b, now)
                 ELSE OnExhausted(b)

Min(a, b) == IF a <= b THEN a ELSE b

\* ------------------------------------------------------------------- state
\* A row as ingestion creates it: the extraction columns take their defaults.
FreshRow(host) ==
    [url |-> host, scraped_at |-> 0, content_text |-> NullText,
     extraction_status |-> NullStatus, extraction_attempts |-> 0,
     next_extract_at |-> NullTime]

\* A row that was in the table when the retry columns were added: it keeps
\* the status and text it had, the new columns take their defaults.
MigratedRow(host, status) ==
    [FreshRow(host) EXCEPT
        !.extraction_status = status,
        !.content_text = IF status = "ok" THEN MinLength ELSE NullText]

InitRows ==
    {FreshRow(h) : h \in Hosts}
    \cup {MigratedRow(h, s) : h \in Hosts, s \in {"ok", "failed"}}

\* no pass has returned since the clock last moved
NoPass ==
    [now |-> NullTime, cutoff |-> 0, batch_size |-> 0, rows |-> {},
     invoked |-> {}, succeeded |-> {}, failed |-> {}, skipped |-> {}]

\* the processes that can run a pass at the same time
Procs == {"p1", "p2"}

\* extract_node is not running
NodeOff ==
    [pc |-> "off", hours |-> 0, picks |-> [i \in Articles |-> 0], frozen |-> TRUE]

\* no session is open
SessionClosed ==
    [pc |-> "closed", now |-> NullTime, todo |-> {}, loaded |-> <<>>,
     local |-> <<>>, worked |-> 0]

\* how the pass that finished last ended, and after how many iterations
NoneEnded == [how |-> "none", worked |-> 0]

SessOff ==
    [proc |-> [p \in Procs |-> SessionClosed],
     ended |-> NoneEnded,
     begun |-> [p \in Procs |-> 0],
     counted |-> [i \in Articles |-> 0],
     raced |-> [i \in Articles |-> FALSE]]

\* the selection engine is not running
SelOff == [pc |-> "off"]

Init ==
    /\ articles \in [Articles -> InitRows]
    /\ clock = 0
    /\ last = NoPass
    /\ failures = [i \in Articles |-> 0]
    /\ node = NodeOff
    /\ sess = SessOff
    /\ sel = SelOff

\* ----------------------------------------------------------------- actions
\* extract_missing_content(hours, batch_size): one whole pass, from the
\* query to the commit.  LIMIT without ORDER BY returns any batch_size of
\* the matching rows.  `last` is the pass as its log shows it: the rows
\* selected, those handed to the Extractor and how each ended; `failures`
\* counts the failed Extractor calls of each article.
PassEffect(hours, batch_size) ==
        LET now == clock
            cutoff == now - hours * MinutesPerHour
            matching == {i \in Articles : Where(articles[i], cutoff, now)}
        IN \E rows \in SUBSET matching :
            /\ Cardinality(rows) = Min(batch_size, Cardinality(matching))
            /\ LET invoked == {i \in rows : netloc(articles[i].url) \notin SKIP_DOMAINS}
               IN \E raw \in [invoked -> RawOutcomes] :
                    LET outcome(i) == IF i \in invoked THEN raw[i] ELSE -1
                        succeeded == {i \in invoked : extract_article_text(raw[i]) # NullText}
                    IN /\ articles' =
                            [i \in Articles |->
                                IF i \in rows
                                THEN ProcessArticle(articles[i], now, outcome(i))
                                ELSE articles[i]]
                       /\ failures' =
                            [i \in Articles |->
                                IF i \in invoked \ succeeded
                                THEN failures[i] + 1 ELSE failures[i]]
                       /\ last' =
                            [now |-> now, cutoff |-> cutoff, batch_size |-> batch_size,
                             rows |-> rows, invoked |-> invoked,
                             succeeded |-> succeeded,
                             failed |-> invoked \ succeeded,
                             skipped |-> rows \ invoked]

ExtractPass ==
    \E hours \in Hours, batch_size \in BatchSizes :
        /\ PassEffect(hours, batch_size)
        /\ UNCHANGED <<clock, node, sess, sel>>

\* time passes between passes
Tick ==
    \E d \in TickSteps :
        /\ clock + d <= MaxClock
        /\ clock' = clock + d
        /\ last' = NoPass
        /\ UNCHANGED <<articles, failures, node, sess, sel>>

Next == ExtractPass \/ Tick

Spec == Init /\ [][Next]_vars

TypeOK ==
    /\ clock \in 0..MaxClock
    /\ \A i \in Articles :
        /\ articles[i].extraction_status \in {NullStatus, "ok", "failed", "skipped"}
        /\ articles[i].extraction_attempts \in Nat

\* ------------------------------------------------------------ vocabulary
\* a step of the behaviour that is a pass of extract_missing_content
PassStep == clock' = clock /\ last'.now = clock

Status(i) == articles[i].extraction_status
Attempts(i) == articles[i].extraction_attempts
NextAt(i) == articles[i].next_extract_at
Content(i) == articles[i].content_text

TerminalStatuses == {"ok", "failed", "skipped"}

\* the extraction columns of row i are the same before and after the step
ExtractionFieldsUnchanged(i) ==
    /\ articles'[i].content_text = articles[i].content_text
    /\ articles'[i].extraction_status = articles[i].extraction_status
    /\ articles'[i].extraction_attempts = articles[i].extraction_attempts
    /\ articles'[i].next_extract_at = articles[i].next_extract_at

\* the attempts are used up, or the row has text or is on the skiplist
Settled(i) ==
    \/ Status(i) \in {"ok", "skipped"}
    \/ Status(i) = "failed" /\ Attempts(i) >= MAX_EXTRACTION_ATTEMPTS

\* ---------------------------------------------------------------------- C1
\* C1: after any number of passes, with time advancing and the Extractor
\* succeeding or failing arbitrarily, every article has
\* extraction_attempts <= MAX_EXTRACTION_ATTEMPTS.
C1_AttemptsNeverExceedMax ==
    \A i \in Articles : Attempts(i) <= MAX_EXTRACTION_ATTEMPTS

\* an article has used all three attempts, each one a failed Extractor call
C1_Witness ==
    \E i \in Articles :
        /\ Attempts(i) = MAX_EXTRACTION_ATTEMPTS
        /\ failures[i] = MAX_EXTRACTION_ATTEMPTS

\* ---------------------------------------------------------------------- C2
\* the candidate set as the claim describes it: NULL status counts as Unset
C2_ClaimedCandidate(a, cutoff, now) ==
    /\ a.scraped_at >= cutoff
    /\ a.content_text = NullText
    /\ a.next_extract_at = NullTime \/ a.next_extract_at <= now
    /\ a.extraction_status = NullStatus

\* C2: an article within the window, with null content_text, no cooldown
\* and extraction_status NULL is selected and processed by the pass whenever
\* batch_size is at least the number of articles in the table.
C2_UnsetArticleIsSelected ==
    [][PassStep =>
        \A i \in Articles :
            (/\ C2_ClaimedCandidate(articles[i], last'.cutoff, last'.now)
             /\ last'.batch_size >= NumArticles)
            => (i \in last'.rows /\ articles'[i] # articles[i])]_vars

\* ---------------------------------------------------------------------- C3
\* C3 as claimed: once extraction_status is Ok, Failed or Skipped, no later
\* pass selects the article or changes its extraction fields.
C3_TerminalStatusIsAbsorbing ==
    [][\A i \in Articles :
        Status(i) \in TerminalStatuses =>
            /\ ExtractionFieldsUnchanged(i)
            /\ PassStep => i \notin last'.rows]_vars

\* C3 as amended: once an article is Ok, Skipped, or Failed with all its
\* attempts used, no later pass selects it or changes its extraction fields.
C3_SettledIsAbsorbing ==
    [][\A i \in Articles :
        Settled(i) =>
            /\ ExtractionFieldsUnchanged(i)
            /\ PassStep => i \notin last'.rows]_vars

\* a pass processed some row while a Failed row with no attempts left and a
\* matching window was passed over
C3_Witness ==
    /\ last.rows # {}
    /\ \E i \in Articles \ last.rows :
        /\ Status(i) = "failed"
        /\ Attempts(i) = MAX_EXTRACTION_ATTEMPTS
        /\ articles[i].scraped_at >= last.cutoff

\* ---------------------------------------------------------------------- C4
\* C4: in every reachable state content_text is non-null if and only if
\* extraction_status = Ok.
C4_ContentIffOk ==
    \A i \in Articles : (Content(i) # NullText) <=> (Status(i) = "ok")

\* the last pass extracted text for a row that was not Ok before
C4_Witness ==
    \E i \in last.succeeded :
        /\ Status(i) = "ok"
        /\ Content(i) # NullText
        /\ Attempts(i) >= 1

\* ---------------------------------------------------------------------- C5
\* C5 as claimed: an article whose extraction_status is Ok, Failed or
\* Skipped has next_extract_at = null.
C5_TerminalStatusHasNoCooldown ==
    \A i \in Articles :
        Status(i) \in TerminalStatuses => NextAt(i) = NullTime

\* C5 as amended: an article that is Ok, Skipped, or Failed with all its
\* attempts used has next_extract_at = null.
C5_SettledHasNoCooldown ==
    \A i \in Articles : Settled(i) => NextAt(i) = NullTime

\* the last pass used up a row's attempts after two cooldowns
C5_Witness ==
    \E i \in last.failed :
        /\ Status(i) = "failed"
        /\ failures[i] = MAX_EXTRACTION_ATTEMPTS
        /\ NextAt(i) = NullTime

\* ---------------------------------------------------------------------- C6
\* C6: an article whose next_extract_at is strictly later than the pass's
\* now is not a candidate of that pass: the Extractor is not invoked for it
\* and none of its fields change.
C6_CooldownExcludes ==
    [][PassStep =>
        \A i \in Articles :
            (NextAt(i) # NullTime /\ NextAt(i) > last'.now) =>
                /\ i \notin last'.rows
                /\ i \notin last'.invoked
                /\ articles'[i] = articles[i]]_vars

\* a pass processed some row while another row of the window was cooling down
C6_Witness ==
    /\ last.rows # {}
    /\ \E i \in Articles \ last.rows :
        /\ NextAt(i) # NullTime
        /\ NextAt(i) > last.now
        /\ articles[i].scraped_at >= last.cutoff

\* ---------------------------------------------------------------------- C7
\* C7: a selected candidate whose host is in SKIP_DOMAINS is set to Skipped
\* without the Extractor being invoked, and its extraction_attempts,
\* content_text and next_extract_at are unchanged by the pass.
C7_SkipLeavesCountersAlone ==
    [][PassStep =>
        \A i \in last'.rows :
            netloc(articles[i].url) \in SKIP_DOMAINS =>
                /\ articles'[i].extraction_status = "skipped"
                /\ i \notin last'.invoked
                /\ failures'[i] = failures[i]
                /\ articles'[i].extraction_attempts = articles[i].extraction_attempts
                /\ articles'[i].content_text = articles[i].content_text
                /\ articles'[i].next_extract_at = articles[i].next_extract_at]_vars

\* the last pass skipped a row
C7_Witness ==
    \E i \in last.skipped :
        /\ netloc(articles[i].url) \in SKIP_DOMAINS
        /\ Status(i) = "skipped"
        /\ Attempts(i) = 0

\* ---------------------------------------------------------------------- C8
\* C8 as claimed: extraction_attempts changes only for a row whose
\* extraction failed; a success sets content_text and status Ok, clears
\* next_extract_at and leaves extraction_attempts as it was.
C8_SuccessKeepsAttempts ==
    [][PassStep =>
        /\ \A i \in last'.succeeded :
            /\ articles'[i].content_text # NullText
            /\ articles'[i].extraction_status = "ok"
            /\ articles'[i].next_extract_at = NullTime
            /\ articles'[i].extraction_attempts = articles[i].extraction_attempts
        /\ \A i \in Articles :
            articles'[i].extraction_attempts # articles[i].extraction_attempts
                => i \in last'.failed]_vars

\* C8 as amended: extraction_attempts is incremented by one exactly for the
\* rows handed to the Extractor, whether the extraction succeeds or fails;
\* a success sets content_text and status Ok and clears next_extract_at.
C8_EveryInvocationCounts ==
    [][PassStep =>
        /\ \A i \in last'.succeeded :
            /\ articles'[i].content_text # NullText
            /\ articles'[i].extraction_status = "ok"
            /\ articles'[i].next_extract_at = NullTime
        /\ \A i \in Articles :
            articles'[i].extraction_attempts =
                articles[i].extraction_attempts
                    + (IF i \in last'.invoked THEN 1 ELSE 0)]_vars

\* the last pass succeeded on a row that had failed before
C8_Witness ==
    \E i \in last.succeeded :
        /\ failures[i] >= 1
        /\ Attempts(i) = failures[i] + 1
        /\ NextAt(i) = NullTime

\* ---------------------------------------------------------------------- C9
\* C9: the cooldown written after an article's first failed attempt is the
\* pass's now + 5 minutes, after its second failed attempt now + 30
\* minutes, and after the third failure no cooldown is written.
C9_BackoffIsFiveThenThirty ==
    [][PassStep =>
        \A i \in last'.failed :
            /\ failures'[i] = 1 => articles'[i].next_extract_at = last'.now + 5
            /\ failures'[i] = 2 => articles'[i].next_extract_at = last'.now + 30
            /\ failures'[i] = 3 => articles'[i].next_extract_at = NullTime]_vars

\* the last pass was a row's second failure and wrote the 30 minute cooldown
C9_Witness ==
    \E i \in last.failed :
        /\ failures[i] = 2
        /\ NextAt(i) = last.now + 30

\* --------------------------------------------------------------------- C10
\* C10 as claimed: a failure that leaves attempts below the maximum keeps
\* the status non-terminal with next_extract_at set, and every article that
\* a pass leaves with extraction_status = Failed has extraction_attempts =
\* max_attempts.
C10_FailedOnlyAtMax ==
    [][PassStep =>
        /\ \A i \in last'.failed :
            articles'[i].extraction_attempts < MAX_EXTRACTION_ATTEMPTS =>
                /\ articles'[i].extraction_status \notin TerminalStatuses
                /\ articles'[i].next_extract_at # NullTime
        /\ \A i \in last'.rows :
            articles'[i].extraction_status = "failed" =>
                articles'[i].extraction_attempts = MAX_EXTRACTION_ATTEMPTS]_vars

\* C10 as amended: a pass writes the status Failed only on the failed
\* attempt that brings extraction_attempts to max_attempts; a failure that
\* leaves attempts below the maximum leaves the status as it was and sets
\* next_extract_at.
C10_FailedWrittenOnlyAtMax ==
    [][PassStep =>
        /\ \A i \in last'.failed :
            IF articles'[i].extraction_attempts < MAX_EXTRACTION_ATTEMPTS
            THEN /\ articles'[i].extraction_status = articles[i].extraction_status
                 /\ articles'[i].next_extract_at # NullTime
                 /\ articles'[i].next_extract_at > last'.now
            ELSE /\ articles'[i].extraction_status = "failed"
                 /\ articles'[i].extraction_attempts = MAX_EXTRACTION_ATTEMPTS
        /\ \A i \in Articles \ last'.failed :
            articles'[i].extraction_status = "failed"
                => articles[i].extraction_status = "failed"]_vars

\* the last pass left one row in cooldown and used up another row's attempts
C10_Witness ==
    /\ \E i \in last.failed :
        Attempts(i) < MAX_EXTRACTION_ATTEMPTS /\ NextAt(i) > last.now
    /\ \E j \in last.failed :
        Attempts(j) = MAX_EXTRACTION_ATTEMPTS /\ Status(j) = "failed"
\* --------------------------------------------------------------------- C15
\* C15: every article with extraction_status = Ok has non-null content_text
\* of at least the minimum content length (100 characters).
C15_OkTextHasMinLength ==
    \A i \in Articles :
        Status(i) = "ok" => (Content(i) # NullText /\ Content(i) >= 100)

\* the last pass stored a text of exactly the minimum length
C15_Witness ==
    \E i \in last.succeeded : Status(i) = "ok" /\ Content(i) = MinLength

\* ========================================================================
\* Passes step by step: the session of extract_missing_content, opened by
\* `with SessionLocal()`, its for loop and its single commit, for two
\* processes that may run a pass at the same time.
\* ========================================================================

\* an exception that escapes extract_article_text: urlparse and
\* trafilatura's extract are called outside the try blocks, and the for loop
\* of extract_missing_content has no handler
Raises == -2

StepOutcomes == RawOutcomes \cup {Raises}

Proc(p) == sess.proc[p]

ExtractionColumns ==
    {"content_text", "extraction_status", "extraction_attempts", "next_extract_at"}

\* the commit written without any UPDATE
Flush_NothingWritten(db, loaded, local) == db

\* session.commit(): the unit of work issues one UPDATE per changed row that
\* sets only the attributes whose value differs from the loaded one
Flush(db, loaded, local) ==
    [f \in DOMAIN db |->
        IF f \in ExtractionColumns /\ local[f] # loaded[f] THEN local[f] ELSE db[f]]

\* every processed article committed on its own
AfterStep_CommitPerArticle(db, i, row) == [db EXCEPT ![i] = row]

\* what an iteration of the for loop persists: nothing, the session has
\* autoflush off and neither flushes nor commits inside the loop
AfterStep(db, i, row) == db

\* lines 49-88: the clock is read, the query runs, the rows are loaded into
\* the session; with no rows the function returns at once
SessBegin(p) ==
    /\ Proc(p).pc = "closed"
    /\ sess.begun[p] < MaxPasses
    /\ \E hours \in Hours, batch_size \in BatchSizes :
        LET now == clock
            cutoff == now - hours * MinutesPerHour
            matching == {i \in Articles : Where(articles[i], cutoff, now)}
        IN \E rows \in SUBSET matching :
            /\ Cardinality(rows) = Min(batch_size, Cardinality(matching))
            /\ sess' =
                [sess EXCEPT
                    !.proc[p] =
                        IF rows = {}
                        THEN SessionClosed
                        ELSE [pc |-> "open", now |-> now, todo |-> rows,
                              loaded |-> [i \in rows |-> articles[i]],
                              local |-> [i \in rows |-> articles[i]],
                              worked |-> 0],
                    !.ended =
                        IF rows = {} THEN [how |-> "empty", worked |-> 0] ELSE @,
                    !.begun[p] = @ + 1,
                    !.raced =
                        [i \in Articles |->
                            \/ sess.raced[i]
                            \/ /\ i \in rows
                               /\ \E q \in Procs \ {p} :
                                    /\ Proc(q).pc = "open"
                                    /\ i \in DOMAIN Proc(q).loaded]]
    /\ UNCHANGED <<articles, clock, last, failures, node, sel>>

\* lines 90-126: one iteration of the for loop, on the session's copy of the
\* row; an exception leaves the with block without a commit
SessStep(p) ==
    /\ Proc(p).pc = "open"
    /\ \E i \in Proc(p).todo :
        \E o \in (IF netloc(Proc(p).local[i].url) \in SKIP_DOMAINS
                  THEN {-1} ELSE StepOutcomes) :
            IF o = Raises
            THEN /\ sess' = [sess EXCEPT
                                !.proc[p] = SessionClosed,
                                !.ended = [how |-> "aborted", worked |-> Proc(p).worked]]
                 /\ UNCHANGED articles
            ELSE LET row == ProcessArticle(Proc(p).local[i], Proc(p).now, o)
                 IN /\ sess' = [sess EXCEPT
                                    !.proc[p].local[i] = row,
                                    !.proc[p].todo = @ \ {i},
                                    !.proc[p].worked = @ + 1]
                    /\ articles' = AfterStep(articles, i, row)
    /\ UNCHANGED <<clock, last, failures, node, sel>>

\* line 128: session.commit() after the loop
SessCommit(p) ==
    /\ Proc(p).pc = "open"
    /\ Proc(p).todo = {}
    /\ articles' =
        [i \in Articles |->
            IF i \in DOMAIN Proc(p).local
            THEN Flush(articles[i], Proc(p).loaded[i], Proc(p).local[i])
            ELSE articles[i]]
    /\ sess' =
        [sess EXCEPT
            !.proc[p] = SessionClosed,
            !.ended = [how |-> "committed", worked |-> Proc(p).worked],
            !.counted =
                [i \in Articles |->
                    IF /\ i \in DOMAIN Proc(p).local
                       /\ netloc(articles[i].url) \notin SKIP_DOMAINS
                    THEN sess.counted[i] + 1 ELSE sess.counted[i]]]
    /\ UNCHANGED <<clock, last, failures, node, sel>>

\* the process is stopped while its session is open, before the commit
SessInterrupt(p) ==
    /\ Proc(p).pc = "open"
    /\ sess' = [sess EXCEPT
                    !.proc[p] = SessionClosed,
                    !.ended = [how |-> "interrupted", worked |-> Proc(p).worked]]
    /\ UNCHANGED <<articles, clock, last, failures, node, sel>>

\* time passes while sessions are open or closed
SessTick ==
    /\ clock + CooldownStep <= MaxClock
    /\ clock' = clock + CooldownStep
    /\ UNCHANGED <<articles, last, failures, node, sess, sel>>

NextSession ==
    \/ \E p \in Procs : SessBegin(p)
    \/ \E p \in Procs : SessStep(p)
    \/ \E p \in Procs : SessCommit(p)
    \/ \E p \in Procs : SessInterrupt(p)
    \/ SessTick

\* the rows a pass can select are those with a status: the table holds rows
\* left Failed before the retry columns were added, of either kind of host
InitSession ==
    /\ Init
    /\ \A i \in Articles : articles[i].extraction_status = "failed"

SpecSession == InitSession /\ [][NextSession]_vars

\* --------------------------------------------------------------------- C12
\* C12: the failure of one article's extraction, an error raised while
\* fetching or parsing it included, never aborts the pass: no pass ends
\* without having processed and committed every candidate it selected.
C12_NoArticleAbortsThePass == sess.ended.how # "aborted"

\* --------------------------------------------------------------------- C13
\* a step in which process p commits its session
Committing(p) ==
    /\ Proc(p).pc = "open"
    /\ Proc(p).todo = {}
    /\ sess'.proc[p].pc = "closed"
    /\ sess'.ended.how = "committed"

\* C13: a pass persists nothing before its single commit: the persisted
\* articles change only in a step that commits a session, so a pass that is
\* interrupted before its commit leaves every persisted field as it was.
C13_NothingPersistedBeforeCommit ==
    [][articles' # articles => \E p \in Procs : Committing(p)]_vars

\* a pass was interrupted after it had processed rows, and no pass has
\* committed anything: the table is as it was ingested
C13_Witness ==
    /\ sess.ended.how = "interrupted"
    /\ sess.ended.worked >= 1
    /\ \A i \in Articles :
        /\ sess.counted[i] = 0
        /\ Attempts(i) = 0
        /\ Status(i) = "failed"

\* --------------------------------------------------------------------- C14
\* C14: when two passes overlap on the same article both invoke the
\* Extractor on it and the persisted row stops reflecting a sequential
\* history; for an article no two overlapping passes selected, the
\* persisted counter equals the number of committed Extractor calls and an
\* Ok row has no cooldown.
C14_OnlyOverlapBreaksHistory ==
    \A i \in Articles :
        ~sess.raced[i] =>
            /\ Attempts(i) = sess.counted[i]
            /\ Status(i) = "ok" => NextAt(i) = NullTime

\* an article two overlapping passes selected: both Extractor calls were
\* committed, one attempt is counted, and the row is Ok with a cooldown
C14_Witness ==
    \E i \in Articles :
        /\ sess.raced[i]
        /\ sess.counted[i] = 2
        /\ Attempts(i) = 1
        /\ Status(i) = "ok"
        /\ NextAt(i) # NullTime

\* ========================================================================
\* extract_node: extract_missing_content called in a loop until a pass
\* reports attempted = 0.
\* ========================================================================
NodeBatchSize == 80

\* the node is entered with the window of the graph state; `picks` counts
\* the passes of this loop that selected each article, `frozen` tells that
\* the clock has not moved since the loop began
NodeStart ==
    /\ node.pc = "off"
    /\ \E hours \in Hours :
        node' = [pc |-> "looping", hours |-> hours,
                 picks |-> [i \in Articles |-> 0], frozen |-> TRUE]
    /\ UNCHANGED <<articles, clock, last, failures, sess, sel>>

\* one turn of the while loop with a pass that returns its counters
NodePass ==
    /\ node.pc = "looping"
    /\ PassEffect(node.hours, NodeBatchSize)
    /\ node' =
        [node EXCEPT
            !.pc = IF last'.rows = {} THEN "done" ELSE "looping",
            !.picks = [i \in Articles |->
                        IF i \in last'.rows THEN node.picks[i] + 1 ELSE node.picks[i]]]
    /\ UNCHANGED <<clock, sess, sel>>

\* one turn of the while loop with a pass that raises while it processes a
\* candidate: nothing is committed and the exception leaves extract_node
NodeRaise ==
    /\ node.pc = "looping"
    /\ \E i \in Articles :
        /\ Where(articles[i], clock - node.hours * MinutesPerHour, clock)
        /\ netloc(articles[i].url) \notin SKIP_DOMAINS
    /\ node' = [node EXCEPT !.pc = "raised"]
    /\ UNCHANGED <<articles, clock, last, failures, sess, sel>>

\* time passes while the loop runs
NodeTick ==
    /\ node.pc = "looping"
    /\ \E d \in TickSteps :
        /\ clock + d <= MaxClock
        /\ clock' = clock + d
    /\ last' = NoPass
    /\ node' = [node EXCEPT !.frozen = FALSE]
    /\ UNCHANGED <<articles, failures, sess, sel>>

NodeStep == NodeStart \/ NodePass \/ NodeRaise

NextNode == NodeStart \/ NodePass \/ NodeRaise \/ NodeTick

\* the loop is running code: it takes its next turn
SpecNode == Init /\ [][NextNode]_vars /\ WF_vars(NodeStep)

\* --------------------------------------------------------------------- C11
\* C11: the loop of extract_node eventually gets a pass with attempted = 0,
\* and while the clock has not moved no article is selected by more than
\* one pass of the loop.
C11_LoopReachesEmptyPass ==
    /\ <>(node.pc = "done")
    /\ [](node.frozen => \A i \in Articles : node.picks[i] <= 1)

\* ========================================================================
\* Selection engine: select_top_diverse (app/services/ranker.py) and
\* pick_and_mark (app/services/select_repo.py).  A row of the pool is a
\* record [id, source, title, topic, score]: `title` is the title as a
\* sequence of characters, `topic` and `score` stand for the values
\* classify_topic and score_article return for the row.
\* ========================================================================

\* str.lower() on the characters the titles use
Lower(c) ==
    CASE c = "F" -> "f"
      [] c = "O" -> "o"
      [] OTHER -> c

Whitespace == {" ", "\t"}

\* the characters [a-z0-9 ] of the titles
KeptChars == {"f", "d", "o", "x", "y", "z", " "}

LowerAll(s) == [k \in 1..Len(s) |-> Lower(s[k])]

\* re.sub(r"\s+", " ", s): every run of whitespace becomes one space
RECURSIVE CollapseSpaces(_)
CollapseSpaces(s) ==
    IF s = <<>> THEN <<>>
    ELSE IF Head(s) \in Whitespace
         THEN IF Len(s) > 1 /\ s[2] \in Whitespace
              THEN CollapseSpaces(Tail(s))
              ELSE <<" ">> \o CollapseSpaces(Tail(s))
         ELSE <<Head(s)>> \o CollapseSpaces(Tail(s))

\* str.strip()
RECURSIVE StripLeft(_)
StripLeft(s) ==
    IF s # <<>> /\ Head(s) \in Whitespace THEN StripLeft(Tail(s)) ELSE s

RECURSIVE StripRight(_)
StripRight(s) ==
    IF s # <<>> /\ s[Len(s)] \in Whitespace
    THEN StripRight(SubSeq(s, 1, Len(s) - 1)) ELSE s

Strip(s) == StripRight(StripLeft(s))

\* re.sub(r"[^a-z0-9 ]+", "", s)
DropOtherChars(s) == SelectSeq(s, LAMBDA c : c \in KeptChars)

\* _norm
norm(s) == DropOtherChars(Strip(CollapseSpaces(LowerAll(s))))

\* list.sort(key=score, reverse=True): stable, so rows of equal score keep
\* the order they had
RECURSIVE InsertDesc(_, _)
InsertDesc(sorted, x) ==
    IF sorted = <<>> THEN <<x>>
    ELSE IF Head(sorted).score >= x.score
         THEN <<Head(sorted)>> \o InsertDesc(Tail(sorted), x)
         ELSE <<x>> \o sorted

RECURSIVE SortDescInto(_, _)
SortDescInto(sorted, rest) ==
    IF rest = <<>> THEN sorted
    ELSE SortDescInto(InsertDesc(sorted, Head(rest)), Tail(rest))

SortDesc(rows) == SortDescInto(<<>>, rows)

\* items[:k] for k >= 0
Take(items, k) == SubSeq(items, 1, Min(k, Len(items)))

\* the keys of a dict filled by setdefault while iterating: the values in
\* the order of their first occurrence
RECURSIVE FirstSeen(_, _)
FirstSeen(values, seen) ==
    IF values = <<>> THEN <<>>
    ELSE IF Head(values) \in seen
         THEN FirstSeen(Tail(values), seen)
         ELSE <<Head(values)>> \o FirstSeen(Tail(values), seen \cup {Head(values)})

SourcesOf(rows) == FirstSeen([k \in 1..Len(rows) |-> rows[k].source], {})

TopicsOf(rows) == FirstSeen([k \in 1..Len(rows) |-> rows[k].topic], {})

RECURSIVE Concat(_)
Concat(lists) ==
    IF lists = <<>> THEN <<>> ELSE Head(lists) \o Concat(Tail(lists))

\* the shortlist without the per-source cut
Shortlist_NoCut(rows, per_source) ==
    LET srcs == SourcesOf(rows)
    IN Concat([k \in 1..Len(srcs) |->
            SortDesc(SelectSeq(rows, LAMBDA r : r.source = srcs[k]))])

\* 1) shortlist per source
Shortlist(rows, per_source) ==
    LET srcs == SourcesOf(rows)
    IN Concat([k \in 1..Len(srcs) |->
            Take(SortDesc(SelectSeq(rows, LAMBDA r : r.source = srcs[k])),
                 per_source)])

\* `if k not in seen`, the empty key kept like any other
RECURSIVE KeepFirstTitles_EmptyKept(_, _)
KeepFirstTitles_EmptyKept(rows, seen) ==
    IF rows = <<>> THEN <<>>
    ELSE LET k == norm(Head(rows).title)
         IN IF k \notin seen
            THEN <<Head(rows)>>
                    \o KeepFirstTitles_EmptyKept(Tail(rows), seen \cup {k})
            ELSE KeepFirstTitles_EmptyKept(Tail(rows), seen)

RECURSIVE KeepFirstTitles(_, _)
KeepFirstTitles(rows, seen) ==
    IF rows = <<>> THEN <<>>
    ELSE LET k == norm(Head(rows).title)
         IN IF k # <<>> /\ k \notin seen
            THEN <<Head(rows)>> \o KeepFirstTitles(Tail(rows), seen \cup {k})
            ELSE KeepFirstTitles(Tail(rows), seen)

\* every shortlisted row kept, duplicates included
Dedupe_KeepsAll(shortlisted) == SortDesc(shortlisted)

\* 2) dedupe by normalized title, best score first
Dedupe(shortlisted) == KeepFirstTitles(SortDesc(shortlisted), {})

\* 3) the buckets: a dict from topic to the rows of the topic, best first
BucketsOf(deduped) ==
    [t \in {deduped[k].topic : k \in 1..Len(deduped)} |->
        SortDesc(SelectSeq(deduped, LAMBDA r : r.topic = t))]

\* buckets.get(topic): an empty list for a topic without bucket
BucketGet(buckets, topic) ==
    IF topic \in DOMAIN buckets THEN buckets[topic] ELSE <<>>

\* for _ in range(target): stop at final_n, else pop the head of the bucket
RECURSIVE PopUpTo(_, _, _, _, _)
PopUpTo(n, topic, final_n, picked, buckets) ==
    IF n <= 0 \/ Len(picked) >= final_n
    THEN [picked |-> picked, buckets |-> buckets]
    ELSE IF BucketGet(buckets, topic) # <<>>
         THEN PopUpTo(n - 1, topic, final_n,
                      Append(picked, Head(buckets[topic])),
                      [buckets EXCEPT ![topic] = Tail(@)])
         ELSE PopUpTo(n - 1, topic, final_n, picked, buckets)

\* the first topic of topic_targets served, the others not
QuotaFill_FirstTopicOnly(targets, final_n, picked, buckets) ==
    IF targets = <<>> THEN [picked |-> picked, buckets |-> buckets]
    ELSE PopUpTo(Head(targets).target, Head(targets).topic, final_n,
                 picked, buckets)

\* no quota: every pick is left to the backfill
QuotaFill_Skipped(targets, final_n, picked, buckets) ==
    [picked |-> picked, buckets |-> buckets]

\* for topic, target in topic_targets.items()
RECURSIVE QuotaFill(_, _, _, _)
QuotaFill(targets, final_n, picked, buckets) ==
    IF targets = <<>> THEN [picked |-> picked, buckets |-> buckets]
    ELSE LET st == PopUpTo(Head(targets).target, Head(targets).topic,
                           final_n, picked, buckets)
         IN QuotaFill(Tail(targets), final_n, st.picked, st.buckets)

\* the rest of the buckets, in the order the buckets were created
Remaining(deduped, buckets) ==
    LET topics == TopicsOf(deduped)
    IN Concat([k \in 1..Len(topics) |-> buckets[topics[k]]])

\* the open slots left open
Backfill_None(final_n, picked, remaining) == picked

\* if len(picked) < final_n: fill up with the best of the rest
Backfill(final_n, picked, remaining) ==
    IF Len(picked) < final_n
    THEN picked \o Take(SortDesc(remaining), final_n - Len(picked))
    ELSE picked

TOPIC_TARGETS_DEFAULT ==
    <<[topic |-> "tech", target |-> 4], [topic |-> "finance", target |-> 3],
      [topic |-> "world", target |-> 2], [topic |-> "other", target |-> 1]>>

\* topic_targets or TOPIC_TARGETS_DEFAULT
TargetsOrDefault(topic_targets) ==
    IF topic_targets = <<>> THEN TOPIC_TARGETS_DEFAULT ELSE topic_targets

\* the picks of the quota loop alone
QuotaPicked(rows, per_source, final_n, topic_targets) ==
    LET deduped == Dedupe(Shortlist(rows, per_source))
    IN QuotaFill(TargetsOrDefault(topic_targets), final_n, <<>>,
                 BucketsOf(deduped)).picked

\* final_n taken as the last index instead of the length
select_top_diverse_OneMore(rows, per_source, final_n, topic_targets) ==
    LET deduped == Dedupe(Shortlist(rows, per_source))
        st == QuotaFill(TargetsOrDefault(topic_targets), final_n + 1, <<>>,
                        BucketsOf(deduped))
    IN Take(Backfill(final_n + 1, st.picked, Remaining(deduped, st.buckets)),
            final_n + 1)

select_top_diverse(rows, per_source, final_n, topic_targets) ==
    LET deduped == Dedupe(Shortlist(rows, per_source))
        st == QuotaFill(TargetsOrDefault(topic_targets), final_n, <<>>,
                        BucketsOf(deduped))
    IN Take(Backfill(final_n, st.picked, Remaining(deduped, st.buckets)),
            final_n)

\* f"rank={rank};topic={topic}"
ReasonSelected(rank, topic) == <<"rank=", rank, ";topic=", topic>>

\* importance_score and reason_selected of a row no pass has written
NoMark == [importance_score |-> NullText, reason_selected |-> <<>>]

\* the loop body without its writes
WriteMark_Skipped(store, picked, k) == store

\* a = the k-th item of picked: a.importance_score = float(score),
\* a.reason_selected = the reason of rank k
WriteMark(store, picked, k) ==
    [store EXCEPT ![picked[k].id] =
        [importance_score |-> picked[k].score,
         reason_selected |-> ReasonSelected(k, picked[k].topic)]]

\* enumerate(picked) counting from 0
RECURSIVE FinalizeFrom_RankFromZero(_, _, _)
FinalizeFrom_RankFromZero(store, picked, k) ==
    IF k > Len(picked) THEN store
    ELSE FinalizeFrom_RankFromZero(
            [store EXCEPT ![picked[k].id] =
                [importance_score |-> picked[k].score,
                 reason_selected |-> ReasonSelected(k - 1, picked[k].topic)]],
            picked, k + 1)

\* for rank, (a, topic, score) in enumerate(picked, start=1), from item k on
RECURSIVE FinalizeFrom(_, _, _)
FinalizeFrom(store, picked, k) ==
    IF k > Len(picked) THEN store
    ELSE FinalizeFrom(WriteMark(store, picked, k), picked, k + 1)

\* the selection columns after the loop of pick_and_mark, store being the
\* columns before it
Finalize(store, picked) == FinalizeFrom(store, picked, 1)

\* pick_and_mark: the ids in rank order and what is written on each row
Marked(picked) ==
    [ids |-> [k \in 1..Len(picked) |-> picked[k].id],
     reason |-> [k \in 1..Len(picked) |-> ReasonSelected(k, picked[k].topic)],
     importance_score |-> [k \in 1..Len(picked) |-> picked[k].score]]

\* ------------------------------------------------------ selection inputs
MaxPool == 3
DefaultPerSource == 5
DefaultFinalN == 10

Row(id, source, title, topic, score) ==
    [id |-> id, source |-> source, title |-> title, topic |-> topic,
     score |-> score]

\* The articles a pool is drawn from: duplicates of one title across the
\* two sources (1-2 with different scores, 3-4 with equal scores), equal
\* scores under different titles (5-6), a title that normalizes to the
\* empty string (8), a title of punctuation around a space (9), three
\* topics.
Catalog ==
    <<Row(1, "hn",  <<"F", " ", "d">>,             "finance", 2),
      Row(2, "toi", <<"f", " ", "\t", "d", "!">>,  "finance", 1),
      Row(3, "hn",  <<"o">>,                       "tech",    3),
      Row(4, "toi", <<"O", "!">>,                  "tech",    3),
      Row(5, "hn",  <<"x">>,                       "tech",    2),
      Row(6, "toi", <<"y">>,                       "tech",    2),
      Row(7, "hn",  <<"z">>,                       "other",   1),
      Row(8, "toi", <<"!">>,                       "other",   3),
      Row(9, "hn",  <<"!", " ", "!">>,             "other",   3)>>

\* the pools: up to MaxPool distinct articles, in any order
Pools ==
    LET picks == UNION {[1..n -> DOMAIN Catalog] : n \in 0..MaxPool}
    IN {[k \in DOMAIN f |-> Catalog[f[k]]] :
            f \in {g \in picks : \A j, k \in DOMAIN g : j # k => g[j] # g[k]}}

PerSources == {0, 1, 2}
FinalNs == {0, 1, 2, 3}

Target(topic, target) == [topic |-> topic, target |-> target]

\* <<>> is topic_targets=None
TargetChoices ==
    {<<>>,
     <<Target("tech", 1), Target("finance", 1)>>,
     <<Target("finance", 2), Target("tech", 1)>>}

\* the pool of the worked example: tech scored 9, 8, 7, 6, 5 and finance
\* scored 10, 4, 3
ExamplePool ==
    <<Row(11, "hn",  <<"f">>,      "tech",    9),
      Row(12, "hn",  <<"d">>,      "tech",    8),
      Row(13, "hn",  <<"o">>,      "tech",    7),
      Row(14, "hn",  <<"x">>,      "tech",    6),
      Row(15, "hn",  <<"y">>,      "tech",    5),
      Row(16, "toi", <<"z">>,      "finance", 10),
      Row(17, "toi", <<"f", "d">>, "finance", 4),
      Row(18, "toi", <<"f", "o">>, "finance", 3)>>

ExampleTargets == <<Target("tech", 2), Target("finance", 1)>>

Reverse(rows) == [k \in 1..Len(rows) |-> rows[Len(rows) + 1 - k]]

Rotate(rows) == IF rows = <<>> THEN <<>> ELSE Append(Tail(rows), Head(rows))

\* the orders the store may return the same rows in
Reorders(rows) == {rows, Reverse(rows), Rotate(rows)}

SelReady(rows, per_source, final_n, topic_targets) ==
    [pc |-> "ready", rows |-> rows, per_source |-> per_source,
     final_n |-> final_n, topic_targets |-> topic_targets,
     picked |-> <<>>, first |-> Marked(<<>>),
     written |-> [id \in {rows[k].id : k \in 1..Len(rows)} |-> NoMark]]

\* the worked example: final_n = 3, per_source left at its default
ExampleInput(rows) == SelReady(rows, DefaultPerSource, 3, ExampleTargets)

SelInputs ==
    {SelReady(rows, per_source, final_n, topic_targets) :
        rows \in Pools, per_source \in PerSources, final_n \in FinalNs,
        topic_targets \in TargetChoices}
    \cup {ExampleInput(rows) : rows \in Reorders(ExamplePool)}
    \cup {SelReady(rows, DefaultPerSource, DefaultFinalN, <<>>) :
            rows \in Reorders(ExamplePool)}

\* pick_and_mark over the rows the query returned
SelRun ==
    /\ sel.pc = "ready"
    /\ sel' = [sel EXCEPT
                !.pc = "picked",
                !.picked = select_top_diverse(sel.rows, sel.per_source,
                                              sel.final_n, sel.topic_targets),
                !.written = Finalize(sel.written,
                                select_top_diverse(sel.rows, sel.per_source,
                                    sel.final_n, sel.topic_targets))]
    /\ UNCHANGED <<articles, clock, last, failures, node, sess>>

\* pick_and_mark once more: the query has no ORDER BY, the same rows come
\* back in some order
SelRerun ==
    /\ sel.pc = "picked"
    /\ \E rows \in Reorders(sel.rows) :
        sel' = [sel EXCEPT
                 !.pc = "again",
                 !.rows = rows,
                 !.first = Marked(sel.picked),
                 !.picked = select_top_diverse(rows, sel.per_source,
                                               sel.final_n, sel.topic_targets),
                 !.written = Finalize(sel.written,
                                select_top_diverse(rows, sel.per_source,
                                    sel.final_n, sel.topic_targets))]
    /\ UNCHANGED <<articles, clock, last, failures, node, sess>>

NextSelect == SelRun \/ SelRerun

InitSelect ==
    /\ articles = [i \in Articles |-> MigratedRow("x.com", "ok")]
    /\ clock = 0
    /\ last = NoPass
    /\ failures = [i \in Articles |-> 0]
    /\ node = NodeOff
    /\ sess = SessOff
    /\ sel \in SelInputs

SpecSelect == InitSelect /\ [][NextSelect]_vars

\* ------------------------------------------------------------ vocabulary
SelDone == sel.pc \in {"picked", "again"}

RowsOf(rows) == {rows[k] : k \in 1..Len(rows)}

TargetSum(targets) ==
    LET t == TargetsOrDefault(targets)
        RECURSIVE Sum(_)
        Sum(k) == IF k = 0 THEN 0 ELSE t[k].target + Sum(k - 1)
    IN Sum(Len(t))

\* --------------------------------------------------------------------- C16
\* C16: select_top_diverse returns at most final_n items and pick_and_mark
\* marks at most final_n ids, also when the topic targets add up to more
\* than final_n.
C16_AtMostFinalN ==
    SelDone =>
        /\ Len(sel.picked) <= sel.final_n
        /\ Len(Marked(sel.picked).ids) <= sel.final_n

\* the targets add up to more than final_n, the pool holds more than
\* final_n distinct titles, and final_n items were returned
C16_Witness ==
    /\ SelDone
    /\ TargetSum(sel.topic_targets) > sel.final_n
    /\ Len(Dedupe(Shortlist(sel.rows, sel.per_source))) > sel.final_n
    /\ sel.final_n > 0
    /\ Len(sel.picked) = sel.final_n

\* --------------------------------------------------------------------- C17
SourceNames == {"hn", "toi"}

FromSource(rows, src) == SelectSeq(rows, LAMBDA r : r.source = src)

\* C17: the shortlist holds at most per_source articles of any one source,
\* and so does the final selection.
C17_AtMostPerSource ==
    SelDone =>
        \A src \in SourceNames :
            /\ Len(FromSource(Shortlist(sel.rows, sel.per_source), src))
                    <= sel.per_source
            /\ Len(FromSource(sel.picked, src)) <= sel.per_source

\* a source offers more than per_source articles and the selection, which
\* had room for more, holds exactly per_source of them
C17_Witness ==
    /\ SelDone
    /\ sel.per_source > 0
    /\ \E src \in SourceNames :
        /\ Len(FromSource(sel.rows, src)) > sel.per_source
        /\ Len(FromSource(sel.picked, src)) = sel.per_source
        /\ Len(sel.picked) < sel.final_n

\* --------------------------------------------------------------------- C18
\* the position of a topic in topic_targets
TargetIndex(targets, topic) ==
    CHOOSE k \in 1..Len(targets) : targets[k].topic = topic

OfTopic(rows, topic) == SelectSeq(rows, LAMBDA r : r.topic = topic)

\* C18: the picks of the quota loop open the result, in the order of
\* topic_targets; each topic gives its best rows, at most `target` of them
\* and exactly min(target, rows of the topic) unless final_n was reached;
\* and the worked example returns tech 9, tech 8, finance 10.
C18_QuotaOrderGoverns ==
    SelDone =>
        LET targets == TargetsOrDefault(sel.topic_targets)
            deduped == Dedupe(Shortlist(sel.rows, sel.per_source))
            quota   == QuotaPicked(sel.rows, sel.per_source, sel.final_n,
                                   sel.topic_targets)
            n       == Len(quota)
        IN /\ n <= Len(sel.picked)
           /\ SubSeq(sel.picked, 1, n) = quota
           /\ \A j, k \in 1..n :
                j < k =>
                    /\ TargetIndex(targets, sel.picked[j].topic)
                            <= TargetIndex(targets, sel.picked[k].topic)
                    /\ sel.picked[j].topic = sel.picked[k].topic
                            => sel.picked[j].score >= sel.picked[k].score
           /\ \A t \in 1..Len(targets) :
                LET mine == OfTopic(SubSeq(sel.picked, 1, n), targets[t].topic)
                    all  == OfTopic(deduped, targets[t].topic)
                IN /\ Len(mine) <= targets[t].target
                   /\ n < sel.final_n
                        => Len(mine) = Min(targets[t].target, Len(all))
                   /\ \A j \in 1..Len(mine), k \in 1..Len(all) :
                        all[k].score > mine[j].score
                            => \E i \in 1..Len(mine) : mine[i] = all[k]
           /\ (RowsOf(sel.rows) = RowsOf(ExamplePool)
                    /\ sel.topic_targets = ExampleTargets)
                => sel.picked = <<ExamplePool[1], ExamplePool[2], ExamplePool[6]>>

\* the worked example, its rows returned in another order than listed: the
\* finance row scored 10 comes after the tech rows scored 9 and 8
C18_Witness ==
    /\ sel.pc = "again"
    /\ sel.rows = Reverse(ExamplePool)
    /\ sel.topic_targets = ExampleTargets
    /\ Len(sel.picked) = sel.final_n
    /\ sel.picked[1].topic = "tech" /\ sel.picked[1].score < sel.picked[3].score
    /\ sel.picked[3].topic = "finance"

\* --------------------------------------------------------------------- C19
\* two articles whose titles normalize to the same string, a scored higher
DuplicateOf(a, b) ==
    /\ a # b
    /\ norm(a.title) = norm(b.title)
    /\ a.score > b.score

\* C19 as stated: of two articles of the pool whose titles normalize to the
\* same string, the lower-scored one is never in the result.
C19_LowerDuplicateNeverSurvives ==
    SelDone =>
        \A a, b \in RowsOf(sel.rows) :
            DuplicateOf(a, b) => b \notin RowsOf(sel.picked)

\* C19 amended: of two articles that both pass the per-source shortlist and
\* whose titles normalize to the same string, the lower-scored one is never
\* in the result, and no two rows of the result share a normalized title.
C19_LowerShortlistedDuplicateNeverSurvives ==
    SelDone =>
        /\ \A a, b \in RowsOf(Shortlist(sel.rows, sel.per_source)) :
                DuplicateOf(a, b) => b \notin RowsOf(sel.picked)
        /\ \A j, k \in 1..Len(sel.picked) :
                j # k => norm(sel.picked[j].title) # norm(sel.picked[k].title)

\* two shortlisted duplicates of different sources: the higher-scored one
\* is selected, the other is not
C19_Witness ==
    /\ SelDone
    /\ \E a, b \in RowsOf(Shortlist(sel.rows, sel.per_source)) :
        /\ DuplicateOf(a, b)
        /\ a.source # b.source
        /\ a \in RowsOf(sel.picked)
        /\ b \notin RowsOf(sel.picked)
        /\ Len(sel.picked) < sel.final_n

\* --------------------------------------------------------------------- C20
\* C20: a second run over the same articles and scores, the rows returned
\* in whatever order, gives the same ordered id list and the same
\* reason_selected strings as the first run.
C20_RerunIsIdentical ==
    sel.pc = "again" =>
        /\ Marked(sel.picked).ids = sel.first.ids
        /\ Marked(sel.picked).reason = sel.first.reason

\* --------------------------------------------------------------------- C21
\* rows of equal score stand in ascending id order
TiesByAscendingId(rows) ==
    \A j, k \in 1..Len(rows) :
        (j < k /\ rows[j].score = rows[k].score) => rows[j].id < rows[k].id

\* C21: at every sort or bucket-pop step of the selection (the shortlist of
\* each source, the dedupe order, each bucket, the backfill) rows of equal
\* score are placed smaller id first.
C21_TiesBrokenByAscendingId ==
    SelDone =>
        LET shortlisted == Shortlist(sel.rows, sel.per_source)
            deduped == Dedupe(shortlisted)
            buckets == BucketsOf(deduped)
            quota == QuotaPicked(sel.rows, sel.per_source, sel.final_n,
                                 sel.topic_targets)
        IN /\ \A src \in SourceNames :
                TiesByAscendingId(FromSource(shortlisted, src))
           /\ TiesByAscendingId(deduped)
           /\ \A t \in DOMAIN buckets : TiesByAscendingId(buckets[t])
           /\ TiesByAscendingId(SubSeq(sel.picked, Len(quota) + 1,
                                       Len(sel.picked)))

\* --------------------------------------------------------------------- C22
\* the row of the pool with the given id
RowById(rows, id) == CHOOSE r \in RowsOf(rows) : r.id = id

\* C22: after pick_and_mark returned ids i1..ik, article ij carries
\* reason_selected "rank=j;topic=<its topic>" and importance_score = its
\* score; the ranks are 1..k and the ids are pairwise distinct.
C22_MarksFollowTheReturnedIds ==
    SelDone =>
        LET ids == Marked(sel.picked).ids
        IN /\ \A j, k \in 1..Len(ids) : j # k => ids[j] # ids[k]
           /\ \A j \in 1..Len(ids) :
                /\ sel.written[ids[j]].reason_selected =
                        <<"rank=", j, ";topic=", RowById(sel.rows, ids[j]).topic>>
                /\ sel.written[ids[j]].importance_score =
                        RowById(sel.rows, ids[j]).score

\* three ids were returned and the third carries rank 3
C22_Witness ==
    /\ sel.pc = "picked"
    /\ Len(Marked(sel.picked).ids) = 3
    /\ sel.written[sel.picked[3].id].reason_selected[2] = 3
    /\ sel.picked[1].topic # sel.picked[3].topic

\* --------------------------------------------------------------------- C24
\* the topics topic_targets names
TargetTopics(targets) == {targets[k].topic : k \in 1..Len(targets)}

\* C24: the result has exactly min(final_n, D) items, D the number of rows
\* left by shortlist and dedupe; what follows the quota picks stands in
\* descending score order, and no row left out scores higher than a
\* backfilled one.
C24_BackfillFillsEverySlot ==
    SelDone =>
        LET deduped == Dedupe(Shortlist(sel.rows, sel.per_source))
            n == Len(QuotaPicked(sel.rows, sel.per_source, sel.final_n,
                                 sel.topic_targets))
            filled == SubSeq(sel.picked, n + 1, Len(sel.picked))
        IN /\ Len(sel.picked) = Min(sel.final_n, Len(deduped))
           /\ \A j, k \in 1..Len(filled) :
                j < k => filled[j].score >= filled[k].score
           /\ \A r \in RowsOf(deduped) \ RowsOf(sel.picked) :
                \A j \in 1..Len(filled) : filled[j].score >= r.score

\* the quotas left a slot open and the backfill gave it to an article whose
\* topic is not in topic_targets
C24_Witness ==
    /\ SelDone
    /\ sel.topic_targets # <<>>
    /\ LET n == Len(QuotaPicked(sel.rows, sel.per_source, sel.final_n,
                                sel.topic_targets))
       IN /\ n > 0
          /\ Len(sel.picked) > n
          /\ sel.picked[Len(sel.picked)].topic
                \notin TargetTopics(sel.topic_targets)

\* --------------------------------------------------------------------- C25
\* C25: when the targets add up to at most final_n, the result holds, for
\* every topic of topic_targets, at least min(target, size of the topic's
\* deduped bucket) rows of the topic, and the quota picks of a topic are
\* the first rows of its bucket, the highest-scored ones.
C25_QuotasMetWhenTheyFit ==
    (SelDone /\ TargetSum(sel.topic_targets) <= sel.final_n) =>
        LET targets == TargetsOrDefault(sel.topic_targets)
            buckets == BucketsOf(Dedupe(Shortlist(sel.rows, sel.per_source)))
            quota == QuotaPicked(sel.rows, sel.per_source, sel.final_n,
                                 sel.topic_targets)
        IN \A t \in 1..Len(targets) :
            LET bucket == BucketGet(buckets, targets[t].topic)
                due == Min(targets[t].target, Len(bucket))
            IN /\ Len(OfTopic(sel.picked, targets[t].topic)) >= due
               /\ OfTopic(quota, targets[t].topic) = SubSeq(bucket, 1, due)
               /\ \A j \in 1..due, k \in 1..Len(bucket) :
                    k > due => bucket[j].score >= bucket[k].score

\* the targets fit into final_n, a bucket holds more rows than its target,
\* and a higher-scored row of another topic is left out for the quota
C25_Witness ==
    /\ SelDone
    /\ sel.topic_targets # <<>>
    /\ TargetSum(sel.topic_targets) <= sel.final_n
    /\ Len(sel.picked) = sel.final_n
    /\ \E r \in RowsOf(Dedupe(Shortlist(sel.rows, sel.per_source)))
                    \ RowsOf(sel.picked) :
         \E j \in 1..Len(sel.picked) :
            /\ sel.picked[j].score < r.score
            /\ sel.picked[j].topic # r.topic

\* --------------------------------------------------------------------- C29
\* the title, lowercased, holds no ASCII letter or digit
NoLetterOrDigit(title) ==
    \A k \in 1..Len(title) : Lower(title[k]) \notin KeptChars \ {" "}

\* the only shortlisted row of its normalized title
UniqueTitle(a, shortlisted) ==
    \A b \in RowsOf(shortlisted) :
        b # a => norm(b.title) # norm(a.title)

\* C29 as stated: an article whose title holds no ASCII letter or digit
\* after lowercasing and stripping is never in the result, and every other
\* shortlisted article with a unique normalized title survives the dedupe.
C29_NoLetterOrDigitNeverSelected ==
    SelDone =>
        LET shortlisted == Shortlist(sel.rows, sel.per_source)
        IN /\ \A r \in RowsOf(sel.picked) : ~NoLetterOrDigit(r.title)
           /\ \A a \in RowsOf(shortlisted) :
                (~NoLetterOrDigit(a.title) /\ UniqueTitle(a, shortlisted))
                    => a \in RowsOf(Dedupe(shortlisted))

\* C29 amended: an article whose title normalizes to the empty string is
\* never in the result, and every other shortlisted article with a unique
\* normalized title survives the dedupe.
C29_EmptyTitleNeverSelected ==
    SelDone =>
        LET shortlisted == Shortlist(sel.rows, sel.per_source)
        IN /\ \A r \in RowsOf(sel.picked) : norm(r.title) # <<>>
           /\ \A a \in RowsOf(shortlisted) :
                (norm(a.title) # <<>> /\ UniqueTitle(a, shortlisted))
                    => a \in RowsOf(Dedupe(shortlisted))

\* a shortlisted article with an empty normalized title is left out although
\* the result has slots open
C29_Witness ==
    /\ SelDone
    /\ 0 < Len(sel.picked) /\ Len(sel.picked) < sel.final_n
    /\ \E r \in RowsOf(Shortlist(sel.rows, sel.per_source)) :
        /\ norm(r.title) = <<>>
        /\ r \notin RowsOf(sel.picked)

\* ========================================================================
\* pick_and_mark over the articles table, between extraction passes.  The
\* columns importance_score and reason_selected of the table are kept in
\* sel.marks, one entry per article.
\* ========================================================================
PickTitles == <<"x", "y", "z", "o", "f", "d">>

\* what the selection reads of article i: source, title, topic and score
\* differ from article to article, the later article scores higher
ArticleRow(i) ==
    Row(i, IF i % 2 = 1 THEN "hn" ELSE "toi", <<PickTitles[i]>>,
        IF i % 2 = 1 THEN "tech" ELSE "finance", i)

\* the query of pick_and_mark with the status clause left out
Selectable_AnyStatus(a, cutoff) == InWindow(a, cutoff) = "T"

\* .where(scraped_at >= cutoff).where(extraction_status == "ok")
\* .where(content_text.is_not(None))
Selectable(a, cutoff) ==
    And3(InWindow(a, cutoff),
         And3(StatusEq(a.extraction_status, "ok"),
              Bool3(a.content_text # NullText))) = "T"

\* the orders a query without ORDER BY may return a set of rows in
Orders(S) ==
    {f \in [1..Cardinality(S) -> S] : \A j, k \in DOMAIN f : j # k => f[j] # f[k]}

PickFinalNs == {1, DefaultFinalN}

\* the selection columns before any pass, no ids returned yet
SelTable ==
    [pc |-> "table", marks |-> [i \in Articles |-> NoMark], ids |-> <<>>,
     hours |-> 0]

\* what pick_and_mark(hours, per_source=5, final_n) writes and returns
PickEffect(hours, final_n) ==
    LET cutoff == clock - hours * MinutesPerHour
        matching == {i \in Articles : Selectable(articles[i], cutoff)}
    IN \E order \in Orders(matching) :
        LET rows == [k \in DOMAIN order |-> ArticleRow(order[k])]
            picked == select_top_diverse(rows, DefaultPerSource, final_n, <<>>)
        IN sel' = [sel EXCEPT
                    !.marks = Finalize(sel.marks, picked),
                    !.ids = Marked(picked).ids,
                    !.hours = hours]

\* one call of pick_and_mark
PickAndMark ==
    \E hours \in Hours, final_n \in PickFinalNs :
        /\ PickEffect(hours, final_n)
        /\ UNCHANGED <<articles, clock, last, failures, node, sess>>

NextPick == ExtractPass \/ SessTick \/ PickAndMark

InitPick ==
    /\ articles \in [Articles -> InitRows]
    /\ clock = 0
    /\ last = NoPass
    /\ failures = [i \in Articles |-> 0]
    /\ node = NodeOff
    /\ sess = SessOff
    /\ sel = SelTable

SpecPick == InitPick /\ [][NextPick]_vars

\* --------------------------------------------------------------------- C23
\* extraction_status = Ok, content_text set, scraped_at within the window
\* of the pass that ran at `now` over `hours`
OkInWindow(a, now, hours) ==
    /\ a.extraction_status = "ok"
    /\ a.content_text # NullText
    /\ a.scraped_at >= now - hours * MinutesPerHour

\* C23: a step that writes a selection column writes it on articles that are
\* Ok with text and inside the window of the pass, and changes no article's
\* extraction columns; a step that changes an extraction column writes no
\* selection column.
C23_SelectionAndExtractionKeepApart ==
    [][/\ sel'.marks # sel.marks =>
            /\ articles' = articles
            /\ \A i \in Articles :
                sel'.marks[i] # sel.marks[i]
                    => OkInWindow(articles[i], clock, sel'.hours)
       /\ articles' # articles => sel'.marks = sel.marks]_vars

\* an article was marked by a pass, a later extraction pass worked on
\* another one, which failed and carries no mark
C23_Witness ==
    /\ \E i \in Articles : sel.marks[i] # NoMark
    /\ \E j \in Articles :
        /\ sel.marks[j] = NoMark
        /\ articles[j].extraction_status = "failed"
        /\ articles[j].extraction_attempts > 0

\* --------------------------------------------------------------------- C28
\* the articles the most recent pass returned
LatestIds == {sel.ids[k] : k \in 1..Len(sel.ids)}

\* the rank written in a reason_selected
RankOf(reason) == reason[2]

\* C28 as stated: the articles with a non-null reason_selected are exactly
\* those the most recent pass returned, and no two articles carry the same
\* rank.
C28_OnlyLatestPassIsMarked ==
    /\ \A i \in Articles :
        sel.marks[i].reason_selected # <<>> <=> i \in LatestIds
    /\ \A i, j \in Articles :
        (i # j /\ sel.marks[i] # NoMark /\ sel.marks[j] # NoMark)
            => RankOf(sel.marks[i].reason_selected)
                    # RankOf(sel.marks[j].reason_selected)

\* C28 amended: the k-th article the most recent pass returned carries that
\* pass's reason of rank k, so no two of the returned articles carry the
\* same rank; an article carrying a reason_selected is Ok and has its text.
C28_LatestPassIsMarked ==
    /\ \A k \in 1..Len(sel.ids) :
        sel.marks[sel.ids[k]].reason_selected
            = ReasonSelected(k, ArticleRow(sel.ids[k]).topic)
    /\ \A j, k \in 1..Len(sel.ids) : j # k => sel.ids[j] # sel.ids[k]
    /\ \A i \in Articles :
        sel.marks[i] # NoMark
            => /\ articles[i].extraction_status = "ok"
               /\ articles[i].content_text # NullText

\* the pool changed between two passes: the article returned first by the
\* most recent pass and an article only an earlier pass returned both carry
\* rank 1
C28_Witness ==
    /\ Len(sel.ids) > 0
    /\ \E i \in Articles \ LatestIds :
        /\ sel.marks[i] # NoMark
        /\ RankOf(sel.marks[i].reason_selected)
                = RankOf(sel.marks[sel.ids[1]].reason_selected)

\* ========================================================================
\* The pipeline (app/graph/build_graph.py): extract_node, then select_node.
\* ========================================================================

\* select_node: pick_and_mark(hours=window_hours, per_source=5, final_n=10),
\* run once extract_node has returned
NodeSelect ==
    /\ node.pc = "done"
    /\ PickEffect(node.hours, DefaultFinalN)
    /\ node' = [node EXCEPT !.pc = "selected"]
    /\ UNCHANGED <<articles, clock, last, failures, sess>>

NextPipeline == NodeStart \/ NodePass \/ NodeRaise \/ NodeTick \/ NodeSelect

\* the graph runs its nodes: the loop takes its next turn, the next node
\* starts
SpecPipeline ==
    InitPick /\ [][NextPipeline]_vars /\ WF_vars(NodeStep \/ NodeSelect)

\* --------------------------------------------------------------------- C26
\* in cooldown as of `now`
InCooldown(a, now) == a.next_extract_at # NullTime /\ a.next_extract_at > now

\* C26: the select step runs only after extract_node returned, extract_node
\* returns only after a pass with attempted = 0, and when it has returned
\* every in-window article without text is Failed, Skipped or in cooldown as
\* of the now of that pass.
C26_SelectFollowsDrainedExtract ==
    /\ (sel.ids # <<>> \/ sel.marks # SelTable.marks) => node.pc = "selected"
    /\ node.pc \in {"done", "selected"} =>
        /\ last.now # NullTime
        /\ last.rows = {}
        /\ \A i \in Articles :
            (/\ articles[i].scraped_at >= last.now - node.hours * MinutesPerHour
             /\ articles[i].content_text = NullText)
                => \/ articles[i].extraction_status \in {"failed", "skipped"}
                   \/ InCooldown(articles[i], last.now)

\* ========================================================================
\* The counters a pass returns (extract_missing_content, the result dict).
\* ========================================================================

\* attempted counted without the skipped candidates
Returned_SkippedNotAttempted(pass) ==
    [attempted |-> Cardinality(pass.rows \ pass.skipped),
     succeeded |-> Cardinality(pass.succeeded),
     failed |-> Cardinality(pass.failed),
     skipped |-> Cardinality(pass.skipped)]

\* {"attempted": len(rows), "succeeded": ..., "failed": ..., "skipped": ...}:
\* each counter is the number of candidates that took its branch
Returned(pass) ==
    [attempted |-> Cardinality(pass.rows),
     succeeded |-> Cardinality(pass.succeeded),
     failed |-> Cardinality(pass.failed),
     skipped |-> Cardinality(pass.skipped)]

\* --------------------------------------------------------------------- C27
\* the candidates of the last pass whose failure scheduled a retry
RetryScheduled ==
    {i \in last.rows : InCooldown(articles[i], last.now)}

\* the candidates of the last pass whose failure was the last one allowed
PermanentlyFailed ==
    {i \in last.rows :
        /\ articles[i].extraction_status = "failed"
        /\ articles[i].extraction_attempts >= MAX_EXTRACTION_ATTEMPTS
        /\ articles[i].next_extract_at = NullTime}

\* C27: the counters a pass returns satisfy attempted = succeeded + failed +
\* skipped and attempted <= batch_size; failed counts the failures that
\* scheduled a retry and those that made the article permanently Failed,
\* attempted counts the skipped candidates too.
C27_CountersAddUp ==
    last.now # NullTime =>
        LET r == Returned(last)
        IN /\ r.attempted = r.succeeded + r.failed + r.skipped
           /\ r.attempted <= last.batch_size
           /\ r.failed = Cardinality(RetryScheduled) + Cardinality(PermanentlyFailed)
           /\ r.skipped = Cardinality({i \in last.rows :
                                articles[i].extraction_status = "skipped"})
           /\ r.succeeded = Cardinality({i \in last.rows :
                                articles[i].content_text # NullText})

\* a pass returned with one candidate skipped and one failed, two attempted
C27_Witness ==
    /\ last.now # NullTime
    /\ Returned(last).attempted = 2
    /\ Returned(last).skipped = 1
    /\ Returned(last).failed = 1

\* ========================================================================
\* reset_failed_extractions (scripts/reset_failed_extractions.py), run
\* between the passes of the scheduler.
\* ========================================================================

\* .filter(scraped_at >= cutoff, extraction_status == "failed",
\*         content_text.is_(None))
ResetMatches(a, cutoff) ==
    And3(InWindow(a, cutoff),
         And3(StatusEq(a.extraction_status, "failed"), NoText(a))) = "T"

\* .update({"extraction_status": None}) and the commit
ResetFailed ==
    /\ \E hours \in Hours :
        articles' =
            [i \in Articles |->
                IF ResetMatches(articles[i], clock - hours * MinutesPerHour)
                THEN [articles[i] EXCEPT !.extraction_status = NullStatus]
                ELSE articles[i]]
    /\ UNCHANGED <<clock, last, failures, node, sess, sel>>

NextReset == ExtractPass \/ Tick \/ ResetFailed

\* the scheduler keeps running its passes
SpecReset == Init /\ [][NextReset]_vars /\ WF_vars(ExtractPass)

\* --------------------------------------------------------------------- C30
\* article i is reset by this step
IsReset(i) ==
    /\ articles[i].extraction_status = "failed"
    /\ articles'[i].extraction_status = NullStatus

\* C30: an article reset_failed_extractions has reset (status NULL, attempts
\* untouched) is a candidate of a pass again, as soon as it is out of
\* cooldown, and no pass takes its extraction_attempts above
\* MAX_EXTRACTION_ATTEMPTS.
C30_ResetArticleIsRetriedWithinBound ==
    /\ [][\A i \in Articles :
            IsReset(i) =>
                /\ articles'[i].extraction_attempts
                        = articles[i].extraction_attempts
                /\ NoCooldown(articles'[i], clock) = "T"
                        => \E hours \in Hours :
                            Where(articles'[i],
                                  clock - hours * MinutesPerHour, clock)]_vars
    /\ [](\A i \in Articles :
            articles[i].extraction_attempts <= MAX_EXTRACTION_ATTEMPTS)
====
